---- MODULE Spec2Model ----
(***************************************************************************)
(* A model of the AI financial news engine: the TF-IDF clustering engine   *)
(* (app/dedup/dedup_service.py), the rule-based impact mapping             *)
(* (app/mapping/impact_mapping.py), the entity extraction                  *)
(* (app/ner/ner_service.py), the query ranking                             *)
(* (app/query/query_service.py) and the pydantic schema they share         *)
(* (app/models/schema.py).                                                 *)
(*                                                                         *)
(* Conventions.  A Python str is a sequence of words (the text between     *)
(* blanks), so " ".join(parts) is concatenation.  An Optional value is a   *)
(* sequence of length 0 (None) or 1.  A float in [0,1] is an integer       *)
(* number of hundredths (confidences) or thousandths (similarities).       *)
(***************************************************************************)
EXTENDS Integers, Sequences, FiniteSets, TLC

VARIABLES
    stories,      \* DeduplicationService.stories: the dict, in insertion order
    uuidCount,    \* how many uuid4() values have been drawn
    processed,    \* ids of the articles handed to process_article so far
    nCalls,       \* number of process_article calls so far
    call,         \* the last call on the engine: its name, argument and the
                  \* engine's stories when it was made
    ret,          \* outcome of the last call on the engine
    enriched,     \* outcome of the last map_story call
    mapLog,       \* the map_story calls made so far: input, output, story after
    mapCalls,     \* number of map_story calls so far
    table,        \* an impacts dict that _add_impact is applied to
    signals,      \* the signals merged into table so far, in order
    nSignals,     \* number of _add_impact calls on table so far
    indexed,      \* QueryService.stories: the indexed list, as object references
    nQueryCalls,  \* number of calls on the query service so far
    searchCall,   \* the last call on the query service: its name, arguments
                  \* and the indexed list when it was made
    searchRet,    \* outcome of the last call on the query service
    pc,           \* where the run of the compiled graph is: idle, at a node,
                  \* at END, or left by an exception
    state,        \* the PipelineState: a dict from keys to values
    stageLog      \* the nodes the run has started, in order

vars == <<stories, uuidCount, processed, nCalls, call, ret,
          enriched, mapLog, mapCalls, table, signals, nSignals,
          indexed, nQueryCalls, searchCall, searchRet, pc, state, stageLog>>

dedupVars == <<stories, uuidCount, processed, nCalls, call, ret>>
mapVars == <<enriched, mapLog, mapCalls>>
mergeVars == <<table, signals, nSignals>>
searchVars == <<indexed, nQueryCalls, searchCall, searchRet>>
pipeVars == <<pc, state, stageLog>>

\* ------------------------------------------------------------------------
\* Bounds of the model
\* ------------------------------------------------------------------------
MaxCalls == 3
MaxMapCalls == 3
MaxSignals == 3
MaxQueryCalls == 2

\* ------------------------------------------------------------------------
\* Python values
\* ------------------------------------------------------------------------
None == <<>>
Some(x) == <<x>>

Range(s) == {s[i] : i \in DOMAIN s}

Contains(s, x) == \E i \in DOMAIN s : s[i] = x

\* getattr(obj, name, None) for an attribute whose value, when set, is not None
GetAttr(obj, name) == IF name \in DOMAIN obj THEN Some(obj[name]) ELSE None

\* truthiness of an Optional[str] / Optional[List[str]]
Truthy(opt) == opt # None /\ opt[1] # <<>>

RECURSIVE Flatten(_)
Flatten(parts) ==
    IF parts = <<>> THEN <<>> ELSE Head(parts) \o Flatten(Tail(parts))

\* ------------------------------------------------------------------------
\* app/models/schema.py
\* ------------------------------------------------------------------------
StoryFields == {"id", "title", "article_ids", "embedding"}

\* Story(**kwargs): pydantic keeps the declared fields and ignores the rest
StoryModel(kwargs) ==
    [f \in StoryFields |-> IF f \in DOMAIN kwargs THEN kwargs[f] ELSE None]

\* setattr(story, attr, val) on a pydantic model: an undeclared field raises
SetAttrOk(story, attr) == attr \in DOMAIN story

\* The articles the engine is fed (NewsArticle instances, ids unique).
Articles ==
    { [id |-> "a1", source |-> Some(<<"MockWire">>),
       title |-> <<"Infosys", "wins">>, body |-> <<"deal">>,
       tickers |-> <<>>, sectors |-> <<"IT">>, regulators |-> <<>>],
      [id |-> "a2", source |-> None,
       title |-> <<"Infosys", "wins">>, body |-> <<>>,
       tickers |-> <<>>, sectors |-> <<>>, regulators |-> <<>>],
      [id |-> "a3", source |-> Some(<<"MockWire">>),
       title |-> <<"HDFC", "Bank", "rates">>, body |-> <<>>,
       tickers |-> <<>>, sectors |-> <<"Banking">>, regulators |-> <<"RBI">>],
      [id |-> "a4", source |-> None,
       title |-> <<"HDFC", "Bank", "rates">>, body |-> <<>>,
       tickers |-> <<"HDFCBANK">>, sectors |-> <<>>, regulators |-> <<>>],
      [id |-> "a5", source |-> None,
       title |-> <<"The">>, body |-> <<>>,
       tickers |-> <<>>, sectors |-> <<>>, regulators |-> <<>>],
      [id |-> "a6", source |-> None,
       title |-> <<"Reserve", "Bank", "of", "India">>, body |-> <<"rates">>,
       tickers |-> <<>>, sectors |-> <<>>, regulators |-> <<>>],
      [id |-> "a7", source |-> None,
       title |-> <<>>, body |-> <<>>,
       tickers |-> <<>>, sectors |-> <<>>, regulators |-> <<>>] }

ArticleIds == {a.id : a \in Articles}

\* ------------------------------------------------------------------------
\* Text: str.lower() and the TfidfVectorizer's analyzer
\* ------------------------------------------------------------------------
Lower(w) ==
    CASE w = "Infosys"  -> "infosys"
      [] w = "MockWire" -> "mockwire"
      [] w = "HDFC"     -> "hdfc"
      [] w = "Bank"     -> "bank"
      [] w = "Banking"  -> "banking"
      [] w = "RBI"      -> "rbi"
      [] w = "HDFCBANK" -> "hdfcbank"
      [] w = "ICICIBANK" -> "icicibank"
      [] w = "INFY"     -> "infy"
      [] w = "IT"       -> "it"
      [] w = "ICICI"    -> "icici"
      [] w = "Central"  -> "central"
      [] w = "The"      -> "the"
      [] w = "Reserve"  -> "reserve"
      [] w = "India"    -> "india"
      [] w = "Technology" -> "technology"
      [] OTHER          -> w

LowerText(text) == [i \in DOMAIN text |-> Lower(text[i])]

\* the words of sklearn's English stop list that the vocabulary above holds
StopWords == {"the", "it", "of"}

IsTerm(w) == w \notin StopWords

\* TfidfVectorizer(stop_words="english").build_analyzer()
Analyze(text) == SelectSeq(LowerText(text), IsTerm)

\* ------------------------------------------------------------------------
\* DeduplicationService: text helpers
\* ------------------------------------------------------------------------
TextPart(opt) == IF Truthy(opt) THEN <<opt[1]>> ELSE <<>>

\* _article_text: title, summary (absent on NewsArticle), body, tags, source
ArticleText(article) ==
    Flatten(  TextPart(GetAttr(article, "title"))
           \o TextPart(GetAttr(article, "summary"))
           \o TextPart(IF Truthy(GetAttr(article, "body"))
                       THEN GetAttr(article, "body")
                       ELSE GetAttr(article, "content"))
           \o TextPart(GetAttr(article, "sectors"))
           \o TextPart(GetAttr(article, "regulators"))
           \o TextPart(GetAttr(article, "tickers"))
           \o TextPart(IF "source" \in DOMAIN article THEN article.source ELSE None))

\* _story_text: whichever of title, summary, sectors, regulators, tickers,
\* sources the story object has
StoryText(story) ==
    Flatten(  TextPart(GetAttr(story, "title"))
           \o TextPart(GetAttr(story, "summary"))
           \o TextPart(GetAttr(story, "sectors"))
           \o TextPart(GetAttr(story, "regulators"))
           \o TextPart(GetAttr(story, "tickers"))
           \o TextPart(IF "sources" \in DOMAIN story
                       THEN Some(Flatten(story.sources)) ELSE None))

\* ------------------------------------------------------------------------
\* sklearn: TfidfVectorizer.fit_transform and cosine_similarity
\* (raw term counts, smooth idf = ln((1+n)/(1+df)) + 1, in tenths)
\* ------------------------------------------------------------------------
IdfTenths ==
    << <<10>>,
       <<14, 10>>,
       <<17, 13, 10>>,
       <<19, 15, 12, 10>>,
       <<21, 17, 14, 12, 10>>,
       <<23, 18, 16, 13, 12, 10>>,
       <<24, 20, 17, 15, 13, 11, 10>>,
       <<25, 21, 18, 16, 14, 13, 11, 10>> >>

Idf(n, df) == IdfTenths[n][df]

Vocabulary(corpus) == UNION {Range(corpus[d]) : d \in DOMAIN corpus}

Tf(doc, t) == Cardinality({i \in DOMAIN doc : doc[i] = t})

Df(corpus, t) == Cardinality({d \in DOMAIN corpus : t \in Range(corpus[d])})

\* the value of a function expression, computed once
Eager(f) == f @@ <<>>

\* fit_transform(corpus): one row of tf * idf weights per document
TfidfMatrix(corpus) ==
    LET idf == Eager([t \in Vocabulary(corpus) |-> Idf(Len(corpus), Df(corpus, t))])
    IN  Eager([d \in DOMAIN corpus |->
                 Eager([t \in Range(corpus[d]) |-> Tf(corpus[d], t) * idf[t]])])

RECURSIVE SumProducts(_, _, _)
SumProducts(terms, u, v) ==
    IF terms = {} THEN 0
    ELSE LET t == CHOOSE x \in terms : TRUE
         IN  u[t] * v[t] + SumProducts(terms \ {t}, u, v)

Dot(u, v) == SumProducts(DOMAIN u \cap DOMAIN v, u, v)

\* floor of the square root, by bisection on lo <= root < hi
RECURSIVE ISqrtIn(_, _, _)
ISqrtIn(x, lo, hi) ==
    IF hi - lo <= 1 THEN lo
    ELSE LET mid == (lo + hi) \div 2
         IN  IF mid * mid <= x THEN ISqrtIn(x, mid, hi) ELSE ISqrtIn(x, lo, mid)

\* 46340 is the largest root whose square is a 32-bit integer
ISqrt(x) == ISqrtIn(x, 0, IF x < 46340 THEN x + 1 ELSE 46341)

\* cosine similarity of two rows in thousandths; a zero row has similarity 0
Cosine(u, v) ==
    LET nu == Dot(u, u)
        nv == Dot(v, v)
    IN  IF nu = 0 \/ nv = 0 THEN 0
        ELSE (1000 * Dot(u, v)) \div ISqrt(nu * nv)

ArgMaxLast(sims) ==
    CHOOSE i \in DOMAIN sims :
        /\ \A j \in DOMAIN sims : sims[j] <= sims[i]
        /\ \A j \in DOMAIN sims : j > i => sims[j] < sims[i]

\* numpy argmax: the first index holding the maximum
ArgMax(sims) ==
    CHOOSE i \in DOMAIN sims :
        /\ \A j \in DOMAIN sims : sims[j] <= sims[i]
        /\ \A j \in DOMAIN sims : j < i => sims[j] < sims[i]

\* ------------------------------------------------------------------------
\* DeduplicationService
\* ------------------------------------------------------------------------
similarity_threshold == 600

Corpus(storyList, article) ==
    Eager([d \in 1..(Len(storyList) + 1) |->
             IF d <= Len(storyList) THEN Analyze(StoryText(storyList[d]))
             ELSE Analyze(ArticleText(article))])

\* sims = cosine_similarity(matrix[:-1], matrix[-1]).ravel()
Sims(corpus) ==
    LET matrix == TfidfMatrix(corpus)
    IN  Eager([d \in 1..(Len(corpus) - 1) |-> Cosine(matrix[d], matrix[Len(corpus)])])

\* fit_transform raises ValueError("empty vocabulary ...") when no document
\* of the corpus holds a term
EmptyVocabulary(corpus) == Vocabulary(corpus) = {}

BelowThresholdBase(best_score) == best_score < 780

\* line 126: best_score < self.similarity_threshold
BelowThreshold(best_score) == best_score < similarity_threshold

\* _find_similar_story: [raised, id] with id the Optional story id
FindSimilarStory(storyList, article) ==
    IF storyList = <<>> THEN [raised |-> FALSE, id |-> None]
    ELSE LET corpus == Corpus(storyList, article)
         IN  IF EmptyVocabulary(corpus)
             THEN [raised |-> TRUE, id |-> None]
             ELSE LET sims     == Sims(corpus)
                      best_idx == ArgMax(sims)
                  IN  IF BelowThreshold(sims[best_idx])
                      THEN [raised |-> FALSE, id |-> None]
                      ELSE [raised |-> FALSE, id |-> Some(storyList[best_idx].id)]

SummaryLen == 280

Prefix(s, n) == SubSeq(s, 1, IF Len(s) < n THEN Len(s) ELSE n)

OrEmpty(opt) == IF Truthy(opt) THEN opt[1] ELSE <<>>

\* the Story built on the create path (lines 144-171)
NewStory(story_id, article) ==
    StoryModel(
        [id          |-> story_id,
         title       |-> article.title,
         article_ids |-> <<article.id>>,
         sectors     |-> OrEmpty(GetAttr(article, "sectors")),
         regulators  |-> OrEmpty(GetAttr(article, "regulators")),
         tickers     |-> OrEmpty(GetAttr(article, "tickers")),
         sources     |-> IF Truthy(article.source) THEN <<article.source[1]>> ELSE <<>>,
         summary     |-> IF Truthy(GetAttr(article, "summary"))
                         THEN article.summary
                         ELSE Prefix(OrEmpty(GetAttr(article, "body")), SummaryLen)])

StoreStoryDropped(storyList, story) == storyList

\* self.stories[story_id] = story
StoreStory(storyList, story) == Append(storyList, story)

AddArticleIdFront(story, article_id) ==
    IF Contains(story.article_ids, article_id) THEN story
    ELSE [story EXCEPT !.article_ids = <<article_id>> \o @]

\* if article.id not in story.article_ids: story.article_ids.append(article.id)
AddArticleId(story, article_id) ==
    IF Contains(story.article_ids, article_id) THEN story
    ELSE [story EXCEPT !.article_ids = Append(@, article_id)]

RECURSIVE AppendMissing(_, _)
AppendMissing(existing, new_vals) ==
    IF new_vals = <<>> THEN existing
    ELSE AppendMissing(IF Contains(existing, Head(new_vals)) THEN existing
                       ELSE Append(existing, Head(new_vals)),
                       Tail(new_vals))

\* _merge_list_attr on an outcome [story, raised]: a raised outcome stays
MergeListAttr(out, attr, new_vals) ==
    IF out.raised \/ new_vals = <<>> THEN out
    ELSE IF GetAttr(out.story, attr) = None
         THEN IF SetAttrOk(out.story, attr)
              THEN [story  |-> [out.story EXCEPT ![attr] = AppendMissing(<<>>, new_vals)],
                    raised |-> FALSE]
              ELSE [story |-> out.story, raised |-> TRUE]
    ELSE [story  |-> [out.story EXCEPT ![attr] = AppendMissing(@, new_vals)],
          raised |-> FALSE]

MergeIntoReanchored(story, article) ==
    [story  |-> [AddArticleId(story, article.id) EXCEPT !.embedding = Some(<<1000, 0>>)],
     raised |-> FALSE]

\* the merge path (lines 176-202) applied to the matched story
MergeInto(story, article) ==
    LET s0 == [story |-> AddArticleId(story, article.id), raised |-> FALSE]
        s1 == MergeListAttr(s0, "sectors", OrEmpty(GetAttr(article, "sectors")))
        s2 == MergeListAttr(s1, "regulators", OrEmpty(GetAttr(article, "regulators")))
        s3 == MergeListAttr(s2, "tickers", OrEmpty(GetAttr(article, "tickers")))
    IN  IF Truthy(article.source)
        THEN MergeListAttr(s3, "sources", <<article.source[1]>>)
        ELSE s3

IndexOfId(storyList, story_id) ==
    CHOOSE i \in DOMAIN storyList : storyList[i].id = story_id

Returned(story) == [kind |-> "story", story |-> story]
Raised(exc) == [kind |-> "raise", exc |-> exc]

\* process_article(article)
ProcessArticle(article) ==
    /\ nCalls < MaxCalls
    /\ nCalls' = nCalls + 1
    /\ processed' = processed \cup {article.id}
    /\ call' = [name |-> "process_article", article |-> article, before |-> stories]
    /\ LET found == FindSimilarStory(stories, article)
       IN  IF found.raised
           THEN /\ ret' = Raised("ValueError")
                /\ UNCHANGED <<stories, uuidCount>>
           ELSE IF found.id = None
           THEN LET story == NewStory(uuidCount + 1, article)
                IN  /\ uuidCount' = uuidCount + 1
                    /\ stories' = StoreStory(stories, story)
                    /\ ret' = Returned(story)
           ELSE LET i   == IndexOfId(stories, found.id[1])
                    out == MergeInto(stories[i], article)
                IN  /\ stories' = [stories EXCEPT ![i] = out.story]
                    /\ ret' = IF out.raised THEN Raised("ValueError")
                              ELSE Returned(out.story)
                    /\ UNCHANGED uuidCount
    /\ UNCHANGED <<mapVars, mergeVars, searchVars, pipeVars>>

\* the methods class DeduplicationService defines
DedupMethods ==
    {"__init__", "_article_text", "_story_text", "_find_similar_story",
     "process_article"}

\* svc.get_all_stories(), as dedup_node, build_index and the demos call it
GetAllStories ==
    /\ call' = [name |-> "get_all_stories", before |-> stories]
    /\ ret' = IF "get_all_stories" \in DedupMethods
              THEN [kind |-> "list", stories |-> stories]
              ELSE Raised("AttributeError")
    /\ UNCHANGED <<stories, uuidCount, processed, nCalls, mapVars, mergeVars,
                   searchVars, pipeVars>>

\* ------------------------------------------------------------------------
\* ImpactMappingService (app/mapping/impact_mapping.py)
\*
\* The impact_type of an ImpactedStock is a str: here a sequence of the
\* pieces "direct", "sector", "regulatory", "," and " ".  The impact_type
\* argument of _add_impact is a str or a list of str.
\* ------------------------------------------------------------------------
PyStr(s) == [type |-> "str", v |-> s]
PyList(l) == [type |-> "list", v |-> l]

bank_stocks_first == <<"HDFCBANK">>

bank_stocks == <<"HDFCBANK", "ICICIBANK">>
it_stocks == <<"INFY">>

\* ",".join(parts)
RECURSIVE JoinComma(_)
JoinComma(parts) ==
    IF parts = <<>> THEN <<>>
    ELSE IF Len(parts) = 1 THEN Head(parts)
    ELSE Head(parts) \o <<",">> \o JoinComma(Tail(parts))

\* s.split(",")
RECURSIVE SplitComma(_)
SplitComma(s) ==
    IF ~Contains(s, ",") THEN <<s>>
    ELSE LET i == CHOOSE k \in DOMAIN s :
                      s[k] = "," /\ \A j \in 1..(k - 1) : s[j] # ","
         IN  <<SubSeq(s, 1, i - 1)>> \o SplitComma(SubSeq(s, i + 1, Len(s)))

\* t.strip()
RECURSIVE Strip(_)
Strip(t) ==
    IF t = <<>> THEN t
    ELSE IF Head(t) = " " THEN Strip(Tail(t))
    ELSE IF t[Len(t)] = " " THEN Strip(SubSeq(t, 1, Len(t) - 1))
    ELSE t

NonEmpty(t) == t # <<>>

\* [t.strip() for t in s.split(",") if t.strip()]
TypesOf(s) ==
    LET parts == SplitComma(s)
    IN  SelectSeq([i \in DOMAIN parts |-> Strip(parts[i])], NonEmpty)

MergeTypesReplaced(current_types, new_types) == AppendMissing(<<>>, new_types)

\* for t in new_types: if t not in current_types: current_types.append(t)
MergeTypes(current_types, new_types) == AppendMissing(current_types, new_types)

MergeConfidenceLast(old, confidence) == confidence

\* keep highest confidence
MergeConfidence(old, confidence) == IF confidence > old THEN confidence ELSE old

HasSymbolNever(impacts, symbol) == FALSE

\* symbol in impacts
HasSymbol(impacts, symbol) == \E i \in DOMAIN impacts : impacts[i].symbol = symbol

\* the record added for a symbol not yet in the table (lines 88-93)
NewImpact(symbol, impact_type_str, confidence) ==
    [symbol |-> symbol, confidence |-> confidence, impact_type |-> impact_type_str]

\* the record of a symbol already in the table, after the merge (lines 95-111)
MergedImpact(st, impact_type_str, confidence) ==
    [st EXCEPT
        !.impact_type = JoinComma(MergeTypes(TypesOf(st.impact_type),
                                             TypesOf(impact_type_str))),
        !.confidence  = MergeConfidence(@, confidence)]

\* _add_impact: impacts is the dict, in insertion order
AddImpact(impacts, symbol, impact_type, confidence) ==
    LET impact_type_str ==
            IF impact_type.type = "list" THEN JoinComma(impact_type.v)
            ELSE impact_type.v
    IN  IF ~HasSymbol(impacts, symbol)
        THEN Append(impacts, NewImpact(symbol, impact_type_str, confidence))
        ELSE LET i == CHOOSE k \in DOMAIN impacts : impacts[k].symbol = symbol
             IN  [impacts EXCEPT ![i] = MergedImpact(@, impact_type_str, confidence)]

\* for sym in syms: self._add_impact(impacts, sym, impact_type, confidence)
RECURSIVE AddImpactAll(_, _, _, _)
AddImpactAll(impacts, syms, impact_type, confidence) ==
    IF syms = <<>> THEN impacts
    ELSE AddImpactAll(AddImpact(impacts, Head(syms), impact_type, confidence),
                      Tail(syms), impact_type, confidence)

\* x startswith / endswith / contains y, for the words of the vocabulary
StartsWith(w, p) ==
    \/ w = p
    \/ <<w, p>> \in {<<"banking", "bank">>, <<"hdfcbank", "hdfc">>,
                     <<"icicibank", "icici">>}
EndsWith(w, p) ==
    \/ w = p
    \/ <<w, p>> \in {<<"hdfcbank", "bank">>, <<"icicibank", "bank">>}
WordHas(w, p) ==
    \/ StartsWith(w, p)
    \/ EndsWith(w, p)

\* needle in text, for a needle of one or more words separated by one blank
InText(needle, text) ==
    IF Len(needle) = 1 THEN \E i \in DOMAIN text : WordHas(text[i], needle[1])
    ELSE \E i \in 1..(Len(text) - Len(needle) + 1) :
            /\ EndsWith(text[i], needle[1])
            /\ StartsWith(text[i + Len(needle) - 1], needle[Len(needle)])
            /\ \A k \in 2..(Len(needle) - 1) : text[i + k - 1] = needle[k]

\* _story_text(story, articles_by_id): story title and summary, then title
\* and body of the first member article found in articles_by_id, lowercased
FirstArticle(article_ids, articles_by_id) ==
    LET found == SelectSeq(article_ids, LAMBDA i : i \in DOMAIN articles_by_id)
    IN  IF found = <<>> THEN None ELSE Some(articles_by_id[found[1]])

ImpactStoryText(story, articles_by_id) ==
    LET article_ids ==
            IF Truthy(GetAttr(story, "article_ids")) THEN story.article_ids
            ELSE OrEmpty(GetAttr(story, "articles"))
        art == FirstArticle(article_ids, articles_by_id)
    IN  LowerText(Flatten(
              TextPart(GetAttr(story, "title"))
           \o TextPart(GetAttr(story, "summary"))
           \o (IF art = None THEN <<>>
               ELSE TextPart(GetAttr(art[1], "title"))
                 \o TextPart(IF Truthy(GetAttr(art[1], "body"))
                             THEN GetAttr(art[1], "body")
                             ELSE GetAttr(art[1], "content")))))

InitialImpactsShared(previous) ==
    IF previous.kind = "enriched" THEN previous.value.impacted_stocks ELSE <<>>

\* impacts: Dict[str, ImpactedStock] = {}   (line 132)
InitialImpacts(previous) == <<>>

Cond(c, impacts, symbol, impact_type, confidence) ==
    IF c THEN AddImpact(impacts, symbol, impact_type, confidence) ELSE impacts

CondAll(c, impacts, syms, impact_type, confidence) ==
    IF c THEN AddImpactAll(impacts, syms, impact_type, confidence) ELSE impacts

DirectConfidence == 100
LinkConfidence == 70

\* the impacts table map_story builds (lines 127-172)
StoryImpacts(story, articles_by_id, previous) ==
    LET text       == ImpactStoryText(story, articles_by_id)
        sectors    == Range(OrEmpty(GetAttr(story, "sectors")))
        regulators == Range(OrEmpty(GetAttr(story, "regulators")))
        tickers    == Range(OrEmpty(GetAttr(story, "tickers")))
        direct     == PyStr(<<"direct">>)
        sector     == PyStr(<<"sector">>)
        regulatory == PyStr(<<"regulatory">>)
        i0 == InitialImpacts(previous)
        i1 == Cond(\/ InText(<<"hdfc", "bank">>, text)
                   \/ InText(<<"hdfcbank">>, text)
                   \/ InText(<<"hdfc", "bank", "ltd">>, text),
                   i0, "HDFCBANK", direct, DirectConfidence)
        i2 == Cond(\/ InText(<<"icici", "bank">>, text)
                   \/ InText(<<"icicibank">>, text)
                   \/ InText(<<"icici", "bank", "ltd">>, text),
                   i1, "ICICIBANK", direct, DirectConfidence)
        i3 == Cond(\/ InText(<<"infosys">>, text)
                   \/ InText(<<"infy">>, text)
                   \/ InText(<<"infosys", "ltd">>, text),
                   i2, "INFY", direct, DirectConfidence)
        i4 == Cond("HDFCBANK" \in tickers, i3, "HDFCBANK", direct, DirectConfidence)
        i5 == Cond("ICICIBANK" \in tickers, i4, "ICICIBANK", direct, DirectConfidence)
        i6 == Cond("INFY" \in tickers, i5, "INFY", direct, DirectConfidence)
        i7 == CondAll("Banking" \in sectors \/ "banking" \in sectors,
                      i6, bank_stocks, sector, LinkConfidence)
        i8 == CondAll(\/ "IT" \in sectors
                      \/ "Technology" \in sectors
                      \/ "technology" \in sectors,
                      i7, it_stocks, sector, LinkConfidence)
        rbi == \/ "RBI" \in regulators
               \/ "rbi" \in regulators
               \/ InText(<<"reserve", "bank", "of", "india">>, text)
        i9 == CondAll(rbi, i8, bank_stocks, regulatory, LinkConfidence)
    IN  CondAll(rbi, i9, it_stocks, sector, LinkConfidence)

StoryWithImpactFields ==
    StoryFields \cup {"summary", "sectors", "regulators", "tickers",
                      "impacted_stocks", "sources", "sentiment", "sentiment_score"}

\* StoryWithImpact(**data): declared fields kept, the others take their default
StoryWithImpactModel(data) ==
    [f \in StoryWithImpactFields |->
        IF f \in DOMAIN data THEN data[f]
        ELSE IF f \in {"sectors", "regulators", "tickers", "impacted_stocks", "sources"}
        THEN <<>> ELSE None]

\* map_story: [enriched, story], the result and the story object after the call
MapStory(story, articles_by_id, previous) ==
    LET impacted_list == StoryImpacts(story, articles_by_id, previous)
        story_data    == [impacted_stocks |-> impacted_list] @@ story
    IN  [enriched |-> StoryWithImpactModel(story_data), story |-> story]

\* articles_by_id = {a.id: a for a in articles}   (langgraph_flow.py:46)
ArticlesById == [i \in ArticleIds |-> CHOOSE a \in Articles : a.id = i]

NoCall == [name |-> "none"]

\* a PipelineState without a key
NoState == [key \in {} |-> None]
NoResult == [kind |-> "none"]

EnrichedResult(story, articles_by_id, out) ==
    [kind |-> "enriched", story |-> story, articles_by_id |-> articles_by_id,
     value |-> out.enriched, after |-> out.story]

\* mapper.map_story(s, articles_by_id) for a story s of the engine
MapEngineStory(i) ==
    /\ i \in DOMAIN stories
    /\ LET out == MapStory(stories[i], ArticlesById, enriched)
       IN  /\ enriched' = EnrichedResult(stories[i], ArticlesById, out)
           /\ stories' = [stories EXCEPT ![i] = out.story]
    /\ UNCHANGED <<uuidCount, processed, nCalls, call, ret, mapLog, mapCalls,
                   mergeVars, searchVars, pipeVars>>

Init ==
    /\ stories = <<>>
    /\ uuidCount = 0
    /\ processed = {}
    /\ nCalls = 0
    /\ call = NoCall
    /\ ret = NoResult
    /\ enriched = NoResult
    /\ mapLog = {}
    /\ mapCalls = 0
    /\ table = <<>>
    /\ signals = <<>>
    /\ nSignals = 0
    /\ indexed = <<>>
    /\ nQueryCalls = 0
    /\ searchCall = NoCall
    /\ searchRet = NoResult
    /\ pc = "idle"
    /\ state = NoState
    /\ stageLog = <<>>

Next ==
    \/ \E article \in Articles : ProcessArticle(article)
    \/ GetAllStories
    \/ \E i \in 1..MaxCalls : MapEngineStory(i)

Spec == Init /\ [][Next]_vars

\* ------------------------------------------------------------------------
\* map_story on stories of any shape (Story or StoryWithImpact)
\* ------------------------------------------------------------------------
PlainStory(id, title, article_ids) ==
    [id |-> id, title |-> title, article_ids |-> article_ids, embedding |-> None]

TaggedStory(id, title, article_ids, sectors, regulators, tickers) ==
    StoryWithImpactModel(
        [sectors |-> sectors, regulators |-> regulators, tickers |-> tickers]
        @@ PlainStory(id, title, article_ids))

MapInputs ==
    { [story |-> PlainStory(1, <<"Infosys", "wins">>, <<"a1">>),
       articles_by_id |-> ArticlesById],
      [story |-> TaggedStory(2, <<"Infosys", "wins">>, <<"a1">>, <<"IT">>, <<>>, <<>>),
       articles_by_id |-> ArticlesById],
      [story |-> TaggedStory(3, <<"deal">>, <<"a9">>, <<"Banking">>, <<"RBI">>, <<>>),
       articles_by_id |-> ArticlesById],
      [story |-> TaggedStory(4, <<"HDFC", "Bank", "rates">>, <<"a3">>,
                             <<"Banking">>, <<>>, <<"HDFCBANK">>),
       articles_by_id |-> ArticlesById],
      [story |-> PlainStory(5, <<"Reserve", "Bank", "of", "India">>, <<"a6">>),
       articles_by_id |-> ArticlesById],
      [story |-> PlainStory(6, <<"deal">>, <<"a9">>),
       articles_by_id |-> ArticlesById],
      [story |-> TaggedStory(7, <<"deal">>, <<>>, <<"Technology">>, <<>>,
                             <<"INFY", "ICICIBANK">>),
       articles_by_id |-> ArticlesById],
      [story |-> PlainStory(8, <<>>, <<"a9", "a3", "a1">>),
       articles_by_id |-> ArticlesById],
      [story |-> PlainStory(8, <<>>, <<"a9", "a3", "a1">>),
       articles_by_id |-> [i \in {"a1"} |-> ArticlesById[i]]],
      [story |-> TaggedStory(9, <<"rates">>, <<"a6">>, <<"IT">>, <<"rbi">>, <<>>),
       articles_by_id |-> ArticlesById],
      [story |-> TaggedStory(13, <<"deal">>, <<"a9">>, <<>>, <<"RBI">>, <<>>),
       articles_by_id |-> ArticlesById] }

MapStoryCall(input) ==
    /\ mapCalls < MaxMapCalls
    /\ mapCalls' = mapCalls + 1
    /\ LET out == MapStory(input.story, input.articles_by_id, enriched)
           res == EnrichedResult(input.story, input.articles_by_id, out)
       IN  /\ enriched' = res
           /\ mapLog' = mapLog \cup {res}
    /\ UNCHANGED <<dedupVars, mergeVars, searchVars, pipeVars>>

NextMap == \E input \in MapInputs : MapStoryCall(input)

SpecMap == Init /\ [][NextMap]_vars

\* ------------------------------------------------------------------------
\* _add_impact on any table, with any signals in any order
\* ------------------------------------------------------------------------
Symbols == {"HDFCBANK", "INFY"}

ImpactTypes ==
    { PyStr(<<"direct">>), PyStr(<<"sector">>), PyStr(<<"regulatory">>),
      PyList(<< <<"sector">>, <<"regulatory">> >>),
      PyStr(<<"direct", ",", " ", "sector">>) }

Confidences == {LinkConfidence, DirectConfidence}

Signal(symbol, impact_type, confidence) ==
    [symbol |-> symbol, impact_type |-> impact_type, confidence |-> confidence]

ApplySignal(symbol, impact_type, confidence) ==
    /\ nSignals < MaxSignals
    /\ nSignals' = nSignals + 1
    /\ table' = AddImpact(table, symbol, impact_type, confidence)
    /\ signals' = Append(signals, Signal(symbol, impact_type, confidence))
    /\ UNCHANGED <<dedupVars, mapVars, searchVars, pipeVars>>

NextMerge ==
    \E symbol \in Symbols, impact_type \in ImpactTypes, confidence \in Confidences :
        ApplySignal(symbol, impact_type, confidence)

SpecMerge == Init /\ [][NextMerge]_vars

\* ------------------------------------------------------------------------
\* EntityExtractionService (app/ner/ner_service.py)
\*
\* spaCy's pipeline is a capability: for a text it yields a doc, here the
\* words of the text as tokens and the ORG entities found in it, or it
\* raises.  Sorted lists without duplicates are sets.
\* ------------------------------------------------------------------------
company_aliases ==
    { [alias |-> <<"HDFC", "Bank">>,  canon |-> <<"HDFC", "Bank">>],
      [alias |-> <<"HDFC">>,          canon |-> <<"HDFC", "Bank">>],
      [alias |-> <<"ICICI", "Bank">>, canon |-> <<"ICICI", "Bank">>],
      [alias |-> <<"ICICI">>,         canon |-> <<"ICICI", "Bank">>],
      [alias |-> <<"Infosys">>,       canon |-> <<"Infosys">>] }

company_to_ticker ==
    [c \in {<<"HDFC", "Bank">>, <<"ICICI", "Bank">>, <<"Infosys">>} |->
        CASE c = <<"HDFC", "Bank">>  -> "HDFCBANK"
          [] c = <<"ICICI", "Bank">> -> "ICICIBANK"
          [] c = <<"Infosys">>       -> "INFY"]

ticker_aliases == {"HDFCBANK", "ICICIBANK", "INFY"}

regulator_aliases ==
    { [alias |-> <<"RBI">>,                              canon |-> "RBI"],
      [alias |-> <<"Reserve", "Bank", "of", "India">>,   canon |-> "RBI"],
      [alias |-> <<"central", "bank">>,                  canon |-> "RBI"] }

sector_keywords ==
    [sector \in {"Banking", "IT", "Financial Services", "Economy"} |->
        CASE sector = "Banking"            -> {"bank", "banking", "banks"}
          [] sector = "IT"                 -> {"IT", "technology", "software"}
          [] sector = "Financial Services" -> {"nbfc", "lending", "finance"}
          [] sector = "Economy"            -> {"economy", "macro", "inflation"}]

\* str.upper(), for the words of the vocabulary
Upper(w) ==
    CASE w \in {"infy", "Infy", "INFY"}             -> "INFY"
      [] w \in {"hdfcbank", "Hdfcbank", "HDFCBANK"} -> "HDFCBANK"
      [] w \in {"icicibank", "ICICIBANK"}           -> "ICICIBANK"
      [] w \in {"rbi", "RBI"}                       -> "RBI"
      [] w \in {"it", "IT"}                         -> "IT"
      [] OTHER                                      -> w

\* token.lemma_ of the spaCy model, for the words of the vocabulary
Lemma(w) ==
    CASE w \in {"banks", "bank"}   -> "bank"
      [] w \in {"Banks", "Bank"}   -> "Bank"
      [] w = "changes"             -> "change"
      [] w = "rates"               -> "rate"
      [] OTHER                     -> w

\* _extract_orgs: the ORG entities of the doc
ExtractOrgs(doc) == doc.orgs

DetectRegulators(text) ==
    LET lowered == Eager(LowerText(text))
    IN  {r.canon : r \in {a \in regulator_aliases :
                            InText(Eager(LowerText(a.alias)), lowered)}}

DetectSectors(doc) ==
    LET tokens == Range(doc.text)
        lemmas == {Lower(Lemma(token)) : token \in tokens}
    IN  {sector \in DOMAIN sector_keywords :
            \E kw \in sector_keywords[sector] :
                IF kw = "IT" THEN "IT" \in tokens ELSE Lower(kw) \in lemmas}

DetectTickers(doc) ==
    {Upper(doc.text[i]) : i \in DOMAIN doc.text} \cap ticker_aliases

\* extract_from_text(text), given the doc that spaCy makes of the text
ExtractFromText(doc) ==
    LET orgs == ExtractOrgs(doc)
    IN  [companies  |-> {a.canon : a \in {x \in company_aliases :
                            \E org \in orgs :
                                InText(Eager(LowerText(x.alias)),
                                       Eager(LowerText(org)))}},
         sectors    |-> DetectSectors(doc),
         regulators |-> DetectRegulators(doc.text),
         tickers    |-> DetectTickers(doc)]

\* companies_to_tickers(companies).values()
CompaniesToTickers(companies) ==
    {company_to_ticker[c] : c \in companies \cap DOMAIN company_to_ticker}

\* ------------------------------------------------------------------------
\* QueryService (app/query/query_service.py)
\*
\* A score is an integer number of ten-thousandths, a similarity an integer
\* number of thousandths, an embedding a pair of thousandths.  The indexed
\* list holds references to story objects: id(s) is the reference, so two
\* entries of the list may be one object.
\* ------------------------------------------------------------------------
DirectMatch == 10000
IndirectMatch == 8000
SectorMatch == 7000
RegulatorMatch == 9000
SemanticFloor == 300
BoosterWeight == 2
default_min_score == 500
default_top_k == 5

Max2(a, b) == IF a >= b THEN a ELSE b

\* a similarity, as a score
AsScore(sem_sim) == 10 * sem_sim

\* _cosine(v1, v2) = float(np.dot(v1, v2))
NpDot(v1, v2) == (v1[1] * v2[1] + v1[2] * v2[2]) \div 1000

IndexedStory(id, sectors, regulators, impacted_stocks, embedding) ==
    StoryWithImpactModel(
        [sectors |-> sectors, regulators |-> regulators,
         impacted_stocks |-> impacted_stocks, embedding |-> embedding]
        @@ PlainStory(id, <<"story">>, <<"a1">>))

\* the StoryWithImpact objects that callers index
StoryObjects ==
    << IndexedStory(1, <<"IT">>, <<>>,
                    <<NewImpact("INFY", <<"direct">>, DirectConfidence)>>,
                    Some(<<1000, 0>>)),
       IndexedStory(2, <<"Banking">>, <<"RBI">>,
                    <<NewImpact("HDFCBANK", <<"direct", ",", " ", "sector">>,
                                DirectConfidence),
                      NewImpact("INFY", <<"sector">>, LinkConfidence)>>,
                    Some(<<600, 800>>)),
       IndexedStory(3, <<>>, <<>>,
                    <<NewImpact("INFY", <<"direct">>, DirectConfidence)>>,
                    None) >>

\* the object behind a reference of an indexed list: a positive reference
\* is one of StoryObjects, a reference -i is the i-th entry of the
\* enriched_stories of the PipelineState
Deref(sid) ==
    IF sid > 0 THEN StoryObjects[sid] ELSE state["enriched_stories"][0 - sid]

TickerScoreAlwaysDirect(impacted_stocks, overlap, score) ==
    IF \E i \in DOMAIN impacted_stocks : impacted_stocks[i].symbol \in overlap
    THEN Max2(score, DirectMatch)
    ELSE score

\* lines 93-98: the pass over the impacted stocks of a story with an overlap
RECURSIVE TickerScore(_, _, _)
TickerScore(impacted_stocks, overlap, score) ==
    IF impacted_stocks = <<>> THEN score
    ELSE LET is_ == Head(impacted_stocks)
             next == IF is_.symbol \in overlap
                     THEN IF Contains(is_.impact_type, "direct")
                          THEN Max2(score, DirectMatch)
                          ELSE Max2(score, IndirectMatch)
                     ELSE score
         IN  TickerScore(Tail(impacted_stocks), overlap, next)

\* lines 85-108: the entity score of one story
EntityScore(story, sectors, regulators, query_tickers) ==
    LET story_tickers == {story.impacted_stocks[i].symbol :
                            i \in DOMAIN story.impacted_stocks}
        overlap == story_tickers \cap query_tickers
        s1 == IF query_tickers # {} /\ overlap # {}
              THEN TickerScore(story.impacted_stocks, overlap, 0)
              ELSE 0
        s2 == IF sectors # {} /\ \E sec \in sectors : Contains(story.sectors, sec)
              THEN Max2(s1, SectorMatch)
              ELSE s1
    IN  IF regulators # {} /\ \E reg \in regulators : Contains(story.regulators, reg)
        THEN Max2(s2, RegulatorMatch)
        ELSE s2

\* lines 81-110: scores, keyed by id(story)
EntityScores(storyList, sectors, regulators, query_tickers) ==
    Eager([sid \in Range(storyList) |->
            EntityScore(Deref(sid), sectors, regulators, query_tickers)])

\* lines 122-127
NoEntities(companies, sectors, regulators, query_tickers) ==
    /\ Cardinality(companies) = 0
    /\ Cardinality(sectors) = 0
    /\ Cardinality(regulators) = 0
    /\ Cardinality(query_tickers) = 0

\* lines 114-132: the pass over the list that folds the similarity in
RECURSIVE SemanticPass(_, _, _, _)
SemanticPass(storyList, scores, query_emb, no_entities) ==
    IF storyList = <<>> THEN scores
    ELSE LET sid == Head(storyList)
             story == Deref(sid)
         IN  IF story.embedding = None
             THEN SemanticPass(Tail(storyList), scores, query_emb, no_entities)
             ELSE LET sem_sim == NpDot(query_emb, story.embedding[1])
                      new == IF no_entities
                             THEN IF sem_sim >= SemanticFloor
                                  THEN Max2(scores[sid], AsScore(sem_sim))
                                  ELSE scores[sid]
                             ELSE scores[sid] + BoosterWeight * sem_sim
                  IN  SemanticPass(Tail(storyList),
                                   [scores EXCEPT ![sid] = new],
                                   query_emb, no_entities)

Pair(sid, score) == [story |-> sid, score |-> score]

KeepScoredAll(storyList, scores, min_score) ==
    [i \in DOMAIN storyList |-> Pair(storyList[i], scores[storyList[i]])]

\* lines 135-139: the pairs whose score is at least min_score, in list order
KeepScored(storyList, scores, min_score) ==
    LET pairs == [i \in DOMAIN storyList |->
                    Pair(storyList[i], scores[storyList[i]])]
        AtLeast(p) == p.score >= min_score
    IN  SelectSeq(pairs, AtLeast)

InsertDescBeforeTies(sorted, x) ==
    LET before == {i \in DOMAIN sorted : sorted[i].score > x.score}
        n == Cardinality(before)
    IN  SubSeq(sorted, 1, n) \o <<x>> \o SubSeq(sorted, n + 1, Len(sorted))

\* x put into a list sorted by score, highest first, behind every element of
\* the same score: list.sort is stable, also with reverse=True
InsertDesc(sorted, x) ==
    LET before == {i \in DOMAIN sorted : sorted[i].score >= x.score}
        n == Cardinality(before)
    IN  SubSeq(sorted, 1, n) \o <<x>> \o SubSeq(sorted, n + 1, Len(sorted))

SortDescSkipped(scored) == scored

\* line 140: scored.sort(key=lambda x: x[1], reverse=True)
RECURSIVE SortDesc(_)
SortDesc(scored) ==
    IF scored = <<>> THEN <<>>
    ELSE InsertDesc(SortDesc(SubSeq(scored, 1, Len(scored) - 1)),
                    scored[Len(scored)])

\* line 142: scored[:top_k]
SliceTo(scored, top_k) ==
    LET n == Len(scored)
        stop == IF top_k >= 0 THEN (IF top_k < n THEN top_k ELSE n)
                ELSE (IF n + top_k > 0 THEN n + top_k ELSE 0)
    IN  SubSeq(scored, 1, stop)

\* the docs that spaCy makes of the query strings
QueryDocs ==
    { [text |-> <<>>, orgs |-> {}],
      [text |-> <<"INFY">>, orgs |-> {}],
      [text |-> <<"Infosys", "deal">>, orgs |-> {<<"Infosys">>}],
      [text |-> <<"HDFC", "Bank", "news">>, orgs |-> {<<"HDFC", "Bank">>}],
      [text |-> <<"RBI", "policy", "changes">>, orgs |-> {<<"RBI">>}],
      [text |-> <<"interest", "rate", "impact">>, orgs |-> {}],
      [text |-> <<"IT", "sector", "update">>, orgs |-> {}] }

\* self.ner.extract_from_text(query), for every query
QueryEntities == Eager([doc \in QueryDocs |-> ExtractFromText(doc)])

\* lines 71-132: the final score of every indexed object
FinalScores(storyList, doc, query_emb) ==
    LET ents == QueryEntities[doc]
        query_tickers == CompaniesToTickers(ents.companies) \cup ents.tickers
        entity == EntityScores(storyList, ents.sectors, ents.regulators,
                               query_tickers)
    IN  SemanticPass(storyList, entity, query_emb,
                     NoEntities(ents.companies, ents.sectors, ents.regulators,
                                query_tickers))

\* lines 135-142
Ranked(storyList, scores, top_k, min_score) ==
    SliceTo(SortDesc(KeepScored(storyList, scores, min_score)), top_k)

\* the vectors that the sentence encoder makes of the query strings
QueryEmbeddings == {<<1000, 0>>, <<0, 1000>>, <<-600, -800>>}

\* an outcome of _embed: a vector, or None when the encoder raises
EmbedOutcomes == {None} \cup {Some(v) : v \in QueryEmbeddings}

\* what the two capabilities do in one search: the pipeline raises, or it
\* works and the encoder is called
CapabilityOutcomes ==
    {[nlp_ok |-> FALSE, embedded |-> None, called |-> TRUE]}
    \cup {[nlp_ok |-> TRUE, embedded |-> e, called |-> TRUE] : e \in EmbedOutcomes}

TopKs == {-1, 1, 2, default_top_k}
MinScores == {-2000, default_min_score, RegulatorMatch}

\* the lists that callers hand to index: references to the story objects
IndexLists ==
    { <<>>, <<1>>, <<2>>, <<3>>, <<1, 2>>, <<2, 1>>, <<1, 3>>, <<3, 1>>,
      <<1, 1>>, <<1, 2, 3>>, <<3, 2, 1>>, <<2, 1, 2>>, <<3, 1, 3, 2>> }

\* index(stories)
Index(storyList) ==
    /\ nQueryCalls < MaxQueryCalls
    /\ nQueryCalls' = nQueryCalls + 1
    /\ indexed' = storyList
    /\ searchCall' = [name |-> "index", stories |-> storyList, before |-> indexed]
    /\ searchRet' = NoResult
    /\ UNCHANGED <<dedupVars, mapVars, mergeVars, pipeVars>>

SearchReturned(results, capability_calls) ==
    [kind |-> "results", value |-> results, capability_calls |-> capability_calls]

SearchRaisesEmpty(exc, capability_calls) ==
    SearchReturned(<<>>, capability_calls)

\* an exception of a capability leaves search: no handler is around the calls
SearchRaises(exc, capability_calls) ==
    [kind |-> "raise", exc |-> exc, capability_calls |-> capability_calls]

EmptyIndexNever(storyList) == FALSE

\* line 68: not self.stories
EmptyIndex(storyList) == storyList = <<>>

\* lines 71-142, for an outcome of the pipeline and one of the encoder
SearchOn(storyList, doc, top_k, min_score, nlp_ok, embedded) ==
    IF ~nlp_ok
    THEN SearchRaises("nlp", <<"extract_from_text">>)
    ELSE IF embedded = None
    THEN SearchRaises("encode",
                      <<"extract_from_text", "companies_to_tickers", "_embed">>)
    ELSE SearchReturned(
            Ranked(storyList, FinalScores(storyList, doc, embedded[1]),
                   top_k, min_score),
            <<"extract_from_text", "companies_to_tickers", "_embed">>)

\* the arguments of a search call, the list it ran on and what the
\* capabilities did when it called them
SearchCall(doc, top_k, min_score, outcome) ==
    [name |-> "search", doc |-> doc, top_k |-> top_k, min_score |-> min_score,
     before |-> indexed, capabilities |-> outcome]

NotCalled == [nlp_ok |-> TRUE, embedded |-> None, called |-> FALSE]

\* search(query, top_k, min_score)
Search(doc, top_k, min_score) ==
    /\ nQueryCalls < MaxQueryCalls
    /\ nQueryCalls' = nQueryCalls + 1
    /\ IF EmptyIndex(indexed)
       THEN /\ searchCall' = SearchCall(doc, top_k, min_score, NotCalled)
            /\ searchRet' = SearchReturned(<<>>, <<>>)
       ELSE \E outcome \in CapabilityOutcomes :
                /\ searchCall' = SearchCall(doc, top_k, min_score, outcome)
                /\ searchRet' = SearchOn(indexed, doc, top_k, min_score,
                                         outcome.nlp_ok, outcome.embedded)
    /\ UNCHANGED <<indexed, dedupVars, mapVars, mergeVars, pipeVars>>

NextSearch ==
    \/ \E storyList \in IndexLists : Index(storyList)
    \/ \E doc \in QueryDocs, top_k \in TopKs, min_score \in MinScores :
            Search(doc, top_k, min_score)

SpecSearch == Init /\ [][NextSearch]_vars

\* ------------------------------------------------------------------------
\* Empty inputs: a query service with nothing indexed, and map_story on
\* stories that name no company, sector or regulator
\* ------------------------------------------------------------------------
EntityFreeInputs ==
    { [story |-> PlainStory(6, <<"deal">>, <<"a9">>),
       articles_by_id |-> ArticlesById],
      [story |-> PlainStory(10, <<>>, <<>>),
       articles_by_id |-> ArticlesById],
      [story |-> TaggedStory(11, <<"rates">>, <<"a9">>, <<>>, <<>>, <<>>),
       articles_by_id |-> <<>>],
      [story |-> PlainStory(12, <<"The">>, <<"a5">>),
       articles_by_id |-> ArticlesById] }

NextEmptyInputs ==
    \/ Index(<<>>)
    \/ \E doc \in QueryDocs, top_k \in TopKs, min_score \in MinScores :
            Search(doc, top_k, min_score)
    \/ \E input \in EntityFreeInputs : MapStoryCall(input)

SpecEmptyInputs == Init /\ [][NextEmptyInputs]_vars

\* ------------------------------------------------------------------------
\* The LangGraph pipeline (app/graph/langgraph_flow.py)
\* ------------------------------------------------------------------------
MaxDataset == 2

\* state.get(key, default)
StateGet(st, key, default) == IF key \in DOMAIN st THEN st[key] ELSE default

\* A dataset path is the sequence of the ids of the articles whose lines the
\* file at the path holds; the empty path is the empty str.
DatasetPaths ==
    {path \in UNION {[1..n -> ArticleIds] : n \in 0..MaxDataset} :
        (\A i, j \in DOMAIN path : path[i] = path[j] => i = j)}

\* "data/mock_news.jsonl"
default_dataset_path == <<"a1", "a3">>

\* load_mock_articles(path): one NewsArticle per line of the file
LoadMockArticles(path) == [i \in DOMAIN path |-> ArticlesById[path[i]]]

\* what a node does: it returns an update of the state, or it raises
NodeReturns(update) == [raised |-> None, update |-> update]
NodeRaises(exc) == [raised |-> Some(exc), update |-> NoState]

\* ingest_node(state)
IngestNode(st) ==
    LET given    == StateGet(st, "dataset_path", <<>>)
        path     == IF given # <<>> THEN given ELSE default_dataset_path
        articles == LoadMockArticles(path)
        articles_by_id ==
            [id \in {articles[i].id : i \in DOMAIN articles} |->
                articles[CHOOSE i \in DOMAIN articles : articles[i].id = id]]
    IN  NodeReturns([articles |-> articles, articles_by_id |-> articles_by_id])

\* svc = DeduplicationService()
NewService == [stories |-> <<>>, uuidCount |-> 0, raised |-> None]

\* svc.process_article(article) on a service [stories, uuidCount, raised]
ProcessOn(svc, article) ==
    LET found == FindSimilarStory(svc.stories, article)
    IN  IF found.raised
        THEN [svc EXCEPT !.raised = Some("ValueError")]
        ELSE IF found.id = None
        THEN [stories   |-> StoreStory(svc.stories,
                                       NewStory(svc.uuidCount + 1, article)),
              uuidCount |-> svc.uuidCount + 1,
              raised    |-> None]
        ELSE LET i   == IndexOfId(svc.stories, found.id[1])
                 out == MergeInto(svc.stories[i], article)
             IN  [stories   |-> [svc.stories EXCEPT ![i] = out.story],
                  uuidCount |-> svc.uuidCount,
                  raised    |-> IF out.raised THEN Some("ValueError") ELSE None]

\* for a in articles: svc.process_article(a)
RECURSIVE ProcessAll(_, _)
ProcessAll(svc, articles) ==
    IF articles = <<>> \/ svc.raised # None THEN svc
    ELSE ProcessAll(ProcessOn(svc, Head(articles)), Tail(articles))

\* the service after the loop of dedup_node, for the articles of every dataset
DedupRuns ==
    Eager([path \in DatasetPaths \cup {default_dataset_path} |->
            ProcessAll(NewService, LoadMockArticles(path))])

\* dedup_node(state)
DedupNode(st) ==
    LET articles == StateGet(st, "articles", <<>>)
        svc      == DedupRuns[[i \in DOMAIN articles |-> articles[i].id]]
    IN  IF svc.raised # None THEN NodeRaises(svc.raised[1])
        ELSE IF "get_all_stories" \in DedupMethods
        THEN NodeReturns([stories |-> svc.stories])
        ELSE NodeRaises("AttributeError")

\* [mapper.map_story(s, articles_by_id) for s in stories]
RECURSIVE MapAll(_, _, _)
MapAll(storyList, articles_by_id, previous) ==
    IF storyList = <<>> THEN <<>>
    ELSE LET out == MapStory(Head(storyList), articles_by_id, previous)
         IN  <<out.enriched>>
             \o MapAll(Tail(storyList), articles_by_id,
                       EnrichedResult(Head(storyList), articles_by_id, out))

\* enrich_node(state)
EnrichNode(st) ==
    LET storyList      == StateGet(st, "stories", <<>>)
        articles_by_id == StateGet(st, "articles_by_id", <<>>)
    IN  NodeReturns([enriched_stories |-> MapAll(storyList, articles_by_id, NoResult)])

\* qs.search(query=query, top_k=5, min_score=0.05)
NodeTopK == 5
NodeMinScore == 500

\* the empty str, as a query
EmptyQuery == [text |-> <<>>, orgs |-> {}]

\* lines 99-103 of query_node: the search on a fresh query service that holds
\* the enriched stories; the call and its outcome
QuerySearch(st, outcome) ==
    LET enriched_stories == StateGet(st, "enriched_stories", <<>>)
        query == StateGet(st, "query", EmptyQuery)
        refs  == [i \in DOMAIN enriched_stories |-> 0 - i]
    IN  IF EmptyIndex(refs)
        THEN [call |-> [name |-> "search", doc |-> query, top_k |-> NodeTopK,
                        min_score |-> NodeMinScore, before |-> refs,
                        capabilities |-> NotCalled],
              ret  |-> SearchReturned(<<>>, <<>>)]
        ELSE [call |-> [name |-> "search", doc |-> query, top_k |-> NodeTopK,
                        min_score |-> NodeMinScore, before |-> refs,
                        capabilities |-> outcome],
              ret  |-> SearchOn(refs, query, NodeTopK, NodeMinScore,
                                outcome.nlp_ok, outcome.embedded)]

\* query_node(state)
QueryNode(st, outcome) ==
    LET query == StateGet(st, "query", EmptyQuery)
    IN  IF query.text = <<>> THEN NodeReturns([results |-> <<>>])
        ELSE LET res == QuerySearch(st, outcome).ret
             IN  IF res.kind = "raise" THEN NodeRaises(res.exc)
                 ELSE NodeReturns([results |-> res.value])

\* the calls query_node makes on its query service
QueryNodeCalls(st, outcome) ==
    IF StateGet(st, "query", EmptyQuery).text = <<>>
    THEN [call |-> NoCall, ret |-> NoResult]
    ELSE QuerySearch(st, outcome)

\* workflow.add_node
Nodes == {"ingest", "dedup", "enrich", "query"}

\* workflow.add_edge
Edges ==
    { <<"START", "ingest">>, <<"ingest", "dedup">>, <<"dedup", "enrich">>,
      <<"enrich", "query">>, <<"query", "END">> }

Successor(node) == CHOOSE next \in Nodes \cup {"END"} : <<node, next>> \in Edges

RunNode(node, st, outcome) ==
    CASE node = "ingest" -> IngestNode(st)
      [] node = "dedup"  -> DedupNode(st)
      [] node = "enrich" -> EnrichNode(st)
      [] node = "query"  -> QueryNode(st, outcome)

\* a dict with the keys of update set to their values in update
Merged(st, update) == update @@ st

\* app.invoke(initial_state) of run_query_through_graph: the run starts at the
\* node behind START
Invoke(dataset_path, query) ==
    /\ pc = "idle"
    /\ pc' = Successor("START")
    /\ state' = [dataset_path |-> dataset_path, query |-> query]
    /\ stageLog' = <<>>
    /\ searchCall' = NoCall
    /\ searchRet' = NoResult
    /\ UNCHANGED <<indexed, nQueryCalls, dedupVars, mapVars, mergeVars>>

\* one step of the compiled graph: the node the run is at is called with the
\* state; its update is merged into the state and the run moves along the
\* edge, or its exception leaves invoke
Superstep ==
    /\ pc \in Nodes
    /\ stageLog' = Append(stageLog, pc)
    /\ \E outcome \in IF pc = "query" THEN CapabilityOutcomes ELSE {NotCalled} :
          LET out == RunNode(pc, state, outcome)
          IN  /\ IF out.raised # None
                 THEN pc' = "raised" /\ state' = state
                 ELSE pc' = Successor(pc) /\ state' = Merged(state, out.update)
              /\ IF pc = "query"
                 THEN /\ searchCall' = QueryNodeCalls(state, outcome).call
                      /\ searchRet' = QueryNodeCalls(state, outcome).ret
                 ELSE UNCHANGED <<searchCall, searchRet>>
    /\ UNCHANGED <<indexed, nQueryCalls, dedupVars, mapVars, mergeVars>>

NextPipeline ==
    \/ \E dataset_path \in DatasetPaths, query \in QueryDocs :
            Invoke(dataset_path, query)
    \/ Superstep

\* invoke runs the graph to its end: a node that can be called is called
SpecPipeline == Init /\ [][NextPipeline]_vars /\ WF_vars(Superstep)

\* ------------------------------------------------------------------------
\* The nodes behind the clustering engine: enrich_node and query_node called
\* with the stories that process_article has made
\* ------------------------------------------------------------------------
RetrievalArticles == {a \in Articles : a.id \in {"a1", "a3", "a6"}}

\* the queries put to the enriched stories
RetrievalQueries ==
    {doc \in QueryDocs :
        doc.text \in {<<>>, <<"INFY">>, <<"interest", "rate", "impact">>}}

\* enriched = enrich_node({"stories": list(svc.stories.values()),
\*                         "articles_by_id": ...})
EnrichEngineStories ==
    /\ LET st  == [stories |-> stories,
                   articles_by_id |-> [id \in processed |-> ArticlesById[id]]]
           out == EnrichNode(st)
       IN  state' = Merged(st, out.update)
    /\ searchCall' = NoCall
    /\ searchRet' = NoResult
    /\ UNCHANGED <<pc, stageLog, indexed, nQueryCalls, dedupVars, mapVars,
                   mergeVars>>

\* query_node(state) with a query, on the state that holds the enriched
\* stories
QueryEnriched(query, outcome) ==
    /\ "enriched_stories" \in DOMAIN state
    /\ LET st  == [key \in (DOMAIN state \ {"results"}) \cup {"query"} |->
                      IF key = "query" THEN query ELSE state[key]]
           out == QueryNode(st, outcome)
       IN  /\ state' = IF out.raised # None THEN st ELSE Merged(st, out.update)
           /\ searchCall' = QueryNodeCalls(st, outcome).call
           /\ searchRet' = QueryNodeCalls(st, outcome).ret
    /\ UNCHANGED <<pc, stageLog, indexed, nQueryCalls, dedupVars, mapVars,
                   mergeVars>>

NextRetrieval ==
    \/ \E article \in RetrievalArticles : ProcessArticle(article)
    \/ EnrichEngineStories
    \/ \E query \in RetrievalQueries, outcome \in CapabilityOutcomes :
            QueryEnriched(query, outcome)

SpecRetrieval == Init /\ [][NextRetrieval]_vars

\* ========================================================================
\* Properties
\* ========================================================================
MemberSet(story) == Range(story.article_ids)

StoriesHolding(article_id) ==
    {i \in DOMAIN stories : article_id \in MemberSet(stories[i])}

IsPrefix(s, t) == Len(s) <= Len(t) /\ SubSeq(t, 1, Len(s)) = s

NoDuplicates(s) == \A i, j \in DOMAIN s : s[i] = s[j] => i = j

Max(S) == CHOOSE x \in S : \A y \in S : y <= x

ImpactTags == {<<"direct">>, <<"sector">>, <<"regulatory">>}

\* C1: after any sequence of process_article calls, every processed article
\* id is in the member list of exactly one story, and the member lists
\* together hold exactly the processed ids (repeated articles included).
PartitionInvariant ==
    /\ \A id \in processed : Cardinality(StoriesHolding(id)) = 1
    /\ UNION {MemberSet(stories[i]) : i \in DOMAIN stories} = processed

\* C2: the Story that process_article returns is one of the engine's stories
\* after the call and its member list holds the article's id.
ReturnsOwningStory ==
    (call.name = "process_article" /\ ret.kind = "story") =>
        /\ \E i \in DOMAIN stories : stories[i] = ret.story
        /\ call.article.id \in MemberSet(ret.story)

ReturnedFromCreate ==
    /\ call.name = "process_article" /\ ret.kind = "story"
    /\ Len(stories) = Len(call.before) + 1

ReturnedFromMerge ==
    /\ call.name = "process_article" /\ ret.kind = "story"
    /\ Len(stories) = Len(call.before)
    /\ Len(ret.story.article_ids) >= 2

\* C3: process_article completes and returns a Story for every well-formed
\* article in every engine state; it never raises.
ProcessNeverRaises ==
    call.name = "process_article" => ret.kind = "story"

\* C4: get_all_stories() returns every story created so far exactly once,
\* in creation order.
AllStoriesInCreationOrder ==
    call.name = "get_all_stories" =>
        /\ ret.kind = "list"
        /\ ret.stories = stories
        /\ \A i \in DOMAIN ret.stories : ret.stories[i].id = i

\* C5: a story once created is never removed, keeps its id, and its member
\* list only grows by appending at the end.
StoriesAppendOnly ==
    [][\A i \in DOMAIN stories :
          /\ i \in DOMAIN stories'
          /\ stories'[i].id = stories[i].id
          /\ IsPrefix(stories[i].article_ids, stories'[i].article_ids)]_vars

MergedAmongSeveral ==
    /\ Len(stories) >= 2
    /\ \E i \in DOMAIN stories : Len(stories[i].article_ids) >= 2

\* C6: map_story calls on the same (story, articles_by_id) input all give
\* the same StoryWithImpact, whatever calls were made in between, and a call
\* leaves the story it was given as it was.
MapStoryIdempotent ==
    /\ \A x, y \in mapLog :
          (x.story = y.story /\ x.articles_by_id = y.articles_by_id)
              => x.value = y.value
    /\ \A x \in mapLog : x.after = x.story

MappedTwice ==
    /\ mapCalls = MaxMapCalls
    /\ Cardinality(mapLog) = 2
    /\ \E x \in mapLog : x.value.impacted_stocks # <<>> /\ x.value # enriched.value
    /\ enriched.value.impacted_stocks # <<>>

\* C7: whatever the order in which signals were merged, each symbol's record
\* holds the maximum confidence among the signals naming it and, as its set
\* of impact types, the union of the types of those signals.
SignalTags(signal) ==
    IF signal.impact_type.type = "list"
    THEN {Strip(signal.impact_type.v[i]) : i \in DOMAIN signal.impact_type.v}
    ELSE Range(TypesOf(signal.impact_type.v))

SignalsNaming(symbol) ==
    {signals[i] : i \in {j \in DOMAIN signals : signals[j].symbol = symbol}}

MergeOrderIndependent ==
    /\ {table[i].symbol : i \in DOMAIN table} = {signals[i].symbol : i \in DOMAIN signals}
    /\ NoDuplicates([i \in DOMAIN table |-> table[i].symbol])
    /\ \A i \in DOMAIN table :
          LET named == SignalsNaming(table[i].symbol)
          IN  /\ table[i].confidence = Max({g.confidence : g \in named})
              /\ Range(TypesOf(table[i].impact_type))
                     = UNION {SignalTags(g) : g \in named}

SeveralSignalsMerged ==
    \E i \in DOMAIN table :
        /\ Cardinality(SignalsNaming(table[i].symbol)) = MaxSignals
        /\ signals[1].confidence > signals[Len(signals)].confidence
        /\ Cardinality(Range(TypesOf(table[i].impact_type))) >= 3

\* C8: merging one more signal never lowers the confidence recorded for its
\* symbol, never removes one of its impact types, and leaves the records of
\* the other symbols as they were.
ConfidenceMonotone ==
    [][nSignals' = nSignals + 1 =>
          LET signal == signals'[Len(signals')]
          IN  \A i \in DOMAIN table :
                /\ i \in DOMAIN table'
                /\ table'[i].symbol = table[i].symbol
                /\ table[i].symbol # signal.symbol => table'[i] = table[i]
                /\ table'[i].confidence >= table[i].confidence
                /\ Range(TypesOf(table[i].impact_type))
                      \subseteq Range(TypesOf(table'[i].impact_type))]_vars

WeakerSignalMerged ==
    /\ Len(table) = 2
    /\ nSignals = MaxSignals
    /\ \E i \in DOMAIN table :
          /\ table[i].symbol = signals[nSignals].symbol
          /\ table[i].confidence > signals[nSignals].confidence
          /\ SignalTags(signals[nSignals]) # Range(TypesOf(table[i].impact_type))

\* C9: the impacted_stocks of every StoryWithImpact map_story returns hold
\* at most one record per symbol, each with a confidence in [0, 1] and a
\* non-empty, duplicate-free list of types among direct, sector, regulatory.
ImpactedStocksWellFormed ==
    enriched.kind = "enriched" =>
        LET stocks == enriched.value.impacted_stocks
        IN  /\ NoDuplicates([i \in DOMAIN stocks |-> stocks[i].symbol])
            /\ \A i \in DOMAIN stocks :
                  LET types == SplitComma(stocks[i].impact_type)
                  IN  /\ stocks[i].confidence \in 0..100
                      /\ types # <<>>
                      /\ Range(types) \subseteq ImpactTags
                      /\ NoDuplicates(types)

SeveralTypesMapped ==
    /\ enriched.kind = "enriched"
    /\ Len(enriched.value.impacted_stocks) >= 2
    /\ \E i \in DOMAIN enriched.value.impacted_stocks :
          Len(SplitComma(enriched.value.impacted_stocks[i].impact_type)) >= 2

\* C10: for a story of the clustering engine whose text mentions Infosys and
\* which belongs to sector IT, map_story gives exactly one INFY record, with
\* confidence 1.0 and impact types {direct, sector}.
BelongsToSector(story, sector) ==
    \E i \in DOMAIN story.article_ids :
        sector \in Range(ArticlesById[story.article_ids[i]].sectors)

DirectPlusSectorFusion ==
    ( /\ enriched.kind = "enriched"
      /\ InText(<<"infosys">>, ImpactStoryText(enriched.story, enriched.articles_by_id))
      /\ BelongsToSector(enriched.story, "IT") ) =>
        LET stocks == enriched.value.impacted_stocks
            infy   == {i \in DOMAIN stocks : stocks[i].symbol = "INFY"}
        IN  /\ Cardinality(infy) = 1
            /\ \A i \in infy :
                  /\ stocks[i].confidence = DirectConfidence
                  /\ Range(TypesOf(stocks[i].impact_type)) = {<<"direct">>, <<"sector">>}

\* ------------------------------------------------------------------------
\* Properties of search
\* ------------------------------------------------------------------------
SearchReturnedList == searchCall.name = "search" /\ searchRet.kind = "results"

Occurrences(s, x) == Cardinality({i \in DOMAIN s : s[i] = x})

ResultStories == [i \in DOMAIN searchRet.value |-> searchRet.value[i].story]

ScoresNonIncreasing(results) ==
    \A i \in 1..(Len(results) - 1) : results[i].score >= results[i + 1].score

\* C11: the list that search returns has scores that do not increase along
\* the list, holds no score below min_score, holds each entry of the indexed
\* list at most once, and is at most top_k long.
RankingOrder ==
    SearchReturnedList =>
        /\ ScoresNonIncreasing(searchRet.value)
        /\ \A i \in DOMAIN searchRet.value :
                searchRet.value[i].score >= searchCall.min_score
        /\ \A sid \in DOMAIN StoryObjects :
                Occurrences(ResultStories, sid) <= Occurrences(searchCall.before, sid)
        /\ Len(searchRet.value) <= searchCall.top_k

\* C11, amended: as above, with the length at most top_k when top_k is not
\* negative, and at most the length of the indexed list less -top_k (or 0)
\* when it is negative.
RankingOrderFromZero ==
    SearchReturnedList =>
        /\ ScoresNonIncreasing(searchRet.value)
        /\ \A i \in DOMAIN searchRet.value :
                searchRet.value[i].score >= searchCall.min_score
        /\ \A sid \in DOMAIN StoryObjects :
                Occurrences(ResultStories, sid) <= Occurrences(searchCall.before, sid)
        /\ IF searchCall.top_k >= 0
           THEN Len(searchRet.value) <= searchCall.top_k
           ELSE Len(searchRet.value)
                    <= Max2(0, Len(searchCall.before) + searchCall.top_k)

\* a search that sorted, filtered and truncated
RankedFilteredTruncated ==
    /\ SearchReturnedList
    /\ searchCall.top_k = 2
    /\ Len(searchRet.value) = 2
    /\ Len(searchCall.before) = 4
    /\ searchRet.value[1].score > searchRet.value[2].score
    /\ searchRet.value[1].story # searchCall.before[1]

\* the final scores of the objects in the list searched, when both
\* capabilities worked
ScoresOfCall ==
    FinalScores(searchCall.before, searchCall.doc,
                searchCall.capabilities.embedded[1])

\* the stories of the pairs with the given score, in the order of the list
StoriesScoring(results, v) ==
    LET Scores(p) == p.score = v
        kept == SelectSeq(results, Scores)
    IN  [i \in DOMAIN kept |-> kept[i].story]

\* C12: stories of equal score keep the order they have in the indexed list:
\* for every score of the result, the result's stories of that score are the
\* first ones of the indexed entries of that score, in indexed order, so that
\* truncation drops the later-indexed ones.
StableTieBreaking ==
    (SearchReturnedList /\ searchCall.before # <<>>) =>
        LET scores == ScoresOfCall
            all == [k \in DOMAIN searchCall.before |->
                        Pair(searchCall.before[k], scores[searchCall.before[k]])]
        IN  \A i \in DOMAIN searchRet.value :
                LET v == searchRet.value[i].score
                IN  IsPrefix(StoriesScoring(searchRet.value, v),
                             StoriesScoring(all, v))

\* two tied stories returned in indexed order, the later reference first,
\* and a third story of the same score cut off by top_k
TiedStoriesReturned ==
    /\ SearchReturnedList
    /\ searchCall.before = <<3, 1, 3, 2>>
    /\ searchCall.top_k = 2
    /\ Len(searchRet.value) = 2
    /\ searchRet.value[1].story = 3
    /\ searchRet.value[2].story = 1
    /\ searchRet.value[1].score = searchRet.value[2].score
    /\ ScoresOfCall[3] = ScoresOfCall[1]


\* the tickers of a query: those of its companies and those it names
QueryTickers(doc) ==
    CompaniesToTickers(QueryEntities[doc].companies) \cup QueryEntities[doc].tickers

\* the only entity detected in the query is one ticker
SingleTickerQuery(doc) ==
    /\ Cardinality(QueryTickers(doc)) = 1
    /\ QueryEntities[doc].sectors = {}
    /\ QueryEntities[doc].regulators = {}

\* the story has an impacted stock of the ticker whose impact type is direct
DirectlyImpacted(story, ticker) ==
    \E i \in DOMAIN story.impacted_stocks :
        /\ story.impacted_stocks[i].symbol = ticker
        /\ story.impacted_stocks[i].impact_type = <<"direct">>

\* 0.2 x similarity of the story to the query vector (nothing without embedding)
Booster(story, query_emb) ==
    IF story.embedding = None THEN 0
    ELSE BoosterWeight * NpDot(query_emb, story.embedding[1])

\* C13: for a query whose only entity is one ticker, a returned story that
\* the ticker impacts directly has the score 1.0 + 0.2 x similarity, which is
\* at most 1.2, whatever else the indexed list holds.
EntityMatchCeiling ==
    (SearchReturnedList /\ searchCall.before # <<>>
        /\ SingleTickerQuery(searchCall.doc)) =>
        \A i \in DOMAIN searchRet.value :
            LET story == Deref(searchRet.value[i].story)
            IN  (\E t \in QueryTickers(searchCall.doc) : DirectlyImpacted(story, t)) =>
                    /\ searchRet.value[i].score
                         = DirectMatch + Booster(story, searchCall.capabilities.embedded[1])
                    /\ searchRet.value[i].score <= DirectMatch + BoosterWeight * 1000


\* C14: every score in a list that search returns is non-negative, for every
\* query, every min_score and every similarity in [-1, 1].
ScoresNonNegative ==
    SearchReturnedList =>
        \A i \in DOMAIN searchRet.value : searchRet.value[i].score >= 0

\* C14, amended: every score in a list that search returns is non-negative
\* when min_score is not negative, for every query and every similarity in
\* [-1, 1]; with a negative min_score a returned score may be negative.
ScoresNonNegativeFromZero ==
    (SearchReturnedList /\ searchCall.min_score >= 0) =>
        \A i \in DOMAIN searchRet.value : searchRet.value[i].score >= 0

\* a search with the default min_score that gave an indexed story a negative
\* score and returned other stories
NegativeScoreFiltered ==
    /\ SearchReturnedList
    /\ searchCall.before # <<>>
    /\ searchCall.min_score = default_min_score
    /\ searchRet.value # <<>>
    /\ \E sid \in Range(searchCall.before) : ScoresOfCall[sid] < 0


\* C15: search on an empty indexed list returns the empty list, for every
\* query (the empty string too), top_k and min_score, whatever the
\* capabilities would do; and map_story on a story without entities (no text
\* of a member article, no tags, member ids unknown to articles_by_id)
\* returns a StoryWithImpact whose impacted_stocks is empty.
EmptyInputsNeverFail ==
    /\ (searchCall.name = "search" /\ searchCall.before = <<>>) =>
            /\ searchRet.kind = "results"
            /\ searchRet.value = <<>>
    /\ \A r \in mapLog :
            (\E input \in EntityFreeInputs :
                /\ r.story = input.story
                /\ r.articles_by_id = input.articles_by_id) =>
                    /\ r.kind = "enriched"
                    /\ r.value.impacted_stocks = <<>>
                    /\ DOMAIN r.value = StoryWithImpactFields

\* the empty query searched in an empty index, after map_story ran on a story
\* whose members are unknown and on one without members
EmptyInputsHandled ==
    /\ searchCall.name = "search"
    /\ searchCall.before = <<>>
    /\ searchCall.doc.text = <<>>
    /\ searchRet.kind = "results"
    /\ \E r1, r2 \in mapLog :
            /\ r1.story.article_ids = <<"a9">>
            /\ r2.story.article_ids = <<>>


\* a capability raised during the last search
CapabilityFailed ==
    /\ searchCall.name = "search"
    /\ searchCall.capabilities.called
    /\ \/ ~searchCall.capabilities.nlp_ok
       \/ searchCall.capabilities.embedded = None

\* C16: when entity extraction or the encoder raises during a search on a
\* non-empty index, search returns no list, the error reaches the caller, no
\* capability is called a second time, and the indexed list is the one from
\* before the call.
CapabilityFailuresNotMasked ==
    (CapabilityFailed /\ searchCall.before # <<>>) =>
        /\ searchRet.kind = "raise"
        /\ searchRet.exc = IF searchCall.capabilities.nlp_ok THEN "encode" ELSE "nlp"
        /\ NoDuplicates(searchRet.capability_calls)
        /\ indexed = searchCall.before

\* the encoder raised after entity extraction worked, on an index of several
\* stories
EncoderFailedInSearch ==
    /\ CapabilityFailed
    /\ searchCall.capabilities.nlp_ok
    /\ Len(searchCall.before) >= 2
    /\ searchRet.kind = "raise"


\* ------------------------------------------------------------------------
\* Properties of the decision of process_article
\* ------------------------------------------------------------------------
\* the last call was process_article on an engine that held a story, and the
\* similarities were computed
DecisionMade ==
    /\ call.name = "process_article"
    /\ call.before # <<>>
    /\ ~EmptyVocabulary(Corpus(call.before, call.article))

BestIdx == ArgMax(Sims(Corpus(call.before, call.article)))
BestSim == Sims(Corpus(call.before, call.article))[BestIdx]

\* the article went into the story of the highest similarity, no story added
MergedIntoBest ==
    /\ Len(stories) = Len(call.before)
    /\ Contains(stories[BestIdx].article_ids, call.article.id)
    /\ IsPrefix(call.before[BestIdx].article_ids, stories[BestIdx].article_ids)

\* a story was added for the article, the others left alone
CreatedNew ==
    /\ Len(stories) = Len(call.before) + 1
    /\ stories[Len(stories)].article_ids = <<call.article.id>>
    /\ \A i \in DOMAIN call.before :
            stories[i].article_ids = call.before[i].article_ids

\* Jaccard overlap of the title tokens of at least 0.30
TitleOverlap(t1, t2) ==
    LET A == Range(LowerText(t1))
        B == Range(LowerText(t2))
    IN  /\ A \cup B # {}
        /\ 100 * Cardinality(A \cap B) >= 30 * Cardinality(A \cup B)

\* C17: when a story exists, process_article merges the article into the
\* story of the highest similarity if and only if that similarity is at least
\* 0.78, or it is at least 0.70 and the title token overlap with that story is
\* at least 0.30; in every other case it creates a new story.
DualThresholdRule ==
    DecisionMade =>
        IF \/ BestSim >= 780
           \/ /\ BestSim >= 700
              /\ TitleOverlap(call.article.title, call.before[BestIdx].title)
        THEN MergedIntoBest
        ELSE CreatedNew


\* C18: when a story exists, process_article merges the article into the
\* story of the highest TF-IDF similarity if and only if that similarity is at
\* least similarity_threshold, and creates a new story when it is below; no
\* overlap of titles takes part; with no story, it creates one.
SingleThresholdRule ==
    /\ DecisionMade =>
            IF BestSim >= similarity_threshold THEN MergedIntoBest ELSE CreatedNew
    /\ (call.name = "process_article" /\ call.before = <<>>) => CreatedNew

\* a merge decided by a similarity between 0.6 and 0.7, into the first of two
\* stories, and for titles that share no third of their tokens
MergedJustAboveThreshold ==
    /\ DecisionMade
    /\ Len(call.before) = 2
    /\ BestSim >= similarity_threshold
    /\ BestSim < 700
    /\ MergedIntoBest


\* the last call of process_article returned a story that it created
CreatedStory ==
    /\ call.name = "process_article"
    /\ ret.kind = "story"
    /\ Len(stories) = Len(call.before) + 1
    /\ \A i \in DOMAIN call.before : call.before[i].id # ret.story.id

\* C19: a story that process_article creates has an id that no story had
\* before, the title of the article, the member list [article.id], the
\* sector, regulator and ticker tags of the article, the source of the article
\* as its only source (none when the article has none), and an embedding
\* that is not None.
CreatePostcondition ==
    CreatedStory =>
        /\ \A i \in DOMAIN call.before : call.before[i].id # ret.story.id
        /\ ret.story.title = call.article.title
        /\ ret.story.article_ids = <<call.article.id>>
        /\ GetAttr(ret.story, "sectors") = Some(call.article.sectors)
        /\ GetAttr(ret.story, "regulators") = Some(call.article.regulators)
        /\ GetAttr(ret.story, "tickers") = Some(call.article.tickers)
        /\ GetAttr(ret.story, "sources")
             = Some(IF Truthy(call.article.source)
                    THEN <<call.article.source[1]>> ELSE <<>>)
        /\ ret.story.embedding # None

\* the last call of process_article merged the article into a story
MergedArticle ==
    /\ DecisionMade
    /\ BestSim >= similarity_threshold
    /\ MergedIntoBest

\* C20: when process_article merges an article into a story, the article id
\* is appended to the member list unless it is there (so the list holds no
\* duplicate), each of the sector, regulator and ticker tag lists becomes the
\* union of the old list and the article's tags, without duplicates and in
\* order of first appearance, and the source of the article, if any, is
\* added to the sources.
MergePostcondition ==
    MergedArticle =>
        LET old == call.before[BestIdx]
            new == stories[BestIdx]
            Tags(story, attr) == OrEmpty(GetAttr(story, attr))
        IN  /\ new.article_ids = AppendMissing(old.article_ids, <<call.article.id>>)
            /\ NoDuplicates(new.article_ids)
            /\ \A attr \in {"sectors", "regulators", "tickers"} :
                    Tags(new, attr) = AppendMissing(Tags(old, attr), call.article[attr])
            /\ Tags(new, "sources")
                 = AppendMissing(Tags(old, "sources"),
                                 IF Truthy(call.article.source)
                                 THEN <<call.article.source[1]>> ELSE <<>>)


\* C21: a merge leaves the id, the title and the embedding of the story as
\* they were, leaves every other story as it was, and leaves the number of
\* stories as it was.
MergeFrame ==
    MergedArticle =>
        /\ Len(stories) = Len(call.before)
        /\ stories[BestIdx].id = call.before[BestIdx].id
        /\ stories[BestIdx].title = call.before[BestIdx].title
        /\ stories[BestIdx].embedding = call.before[BestIdx].embedding
        /\ \A j \in DOMAIN call.before :
                j # BestIdx => stories[j] = call.before[j]

\* an article merged into the second of two stories
MergedBesideAnother ==
    /\ MergedArticle
    /\ Len(call.before) = 2
    /\ BestIdx = 2
    /\ Len(stories[2].article_ids) = 2


\* the similarities of the stories to the article of the last call
CallSims == Sims(Corpus(call.before, call.article))

\* the stories whose similarity to the article is the highest
TiedCandidates ==
    {i \in DOMAIN CallSims : \A j \in DOMAIN CallSims : CallSims[j] <= CallSims[i]}

FirstCandidate == CHOOSE i \in TiedCandidates : \A j \in TiedCandidates : i <= j

\* C22: when several stories have the same highest similarity to the
\* article, the article is merged into the one created first, and the id
\* that the selection gives is the id of that story.
FirstCandidateWins ==
    (DecisionMade /\ BestSim >= similarity_threshold) =>
        /\ Contains(stories[FirstCandidate].article_ids, call.article.id)
        /\ \A j \in DOMAIN call.before :
                j # FirstCandidate =>
                    stories[j].article_ids = call.before[j].article_ids
        /\ ret.kind = "story" => ret.story.id = call.before[FirstCandidate].id
        /\ FindSimilarStory(call.before, call.article).id
             = Some(call.before[FirstCandidate].id)

\* an article merged when two stories had the same highest similarity to it
TiedCandidatesMerged ==
    /\ DecisionMade
    /\ BestSim >= similarity_threshold
    /\ Cardinality(TiedCandidates) >= 2
    /\ ret.kind = "story"
    /\ ~Contains(call.before[1].article_ids, call.article.id)


\* the article of the last call of process_article has no text
EmptyTextCall ==
    /\ call.name = "process_article"
    /\ ArticleText(call.article) = <<>>

\* C23: an article without text has similarity zero to every story, so in
\* every state of the engine, also one whose stories come from articles
\* without text, process_article creates a new story for it and does not
\* raise.
EmptyTextCreatesStory ==
    EmptyTextCall =>
        /\ ret.kind = "story"
        /\ CreatedNew
        /\ ret.story.article_ids = <<call.article.id>>


\* ------------------------------------------------------------------------
\* Properties of the regulator signals of map_story
\* ------------------------------------------------------------------------
\* a regulator is detected in the story of a map_story call
RegulatorDetected(r) ==
    \/ Contains(OrEmpty(GetAttr(r.story, "regulators")), "RBI")
    \/ InText(<<"reserve", "bank", "of", "india">>,
              ImpactStoryText(r.story, r.articles_by_id))

\* the story of a map_story call gives no signal but the regulator's: no
\* ticker, no sector, no company named in its text
NoOtherSignal(r) ==
    LET text == ImpactStoryText(r.story, r.articles_by_id)
    IN  /\ OrEmpty(GetAttr(r.story, "tickers")) = <<>>
        /\ OrEmpty(GetAttr(r.story, "sectors")) = <<>>
        /\ \A needle \in {<<"hdfc", "bank">>, <<"hdfcbank">>, <<"icici", "bank">>,
                          <<"icicibank">>, <<"infosys">>, <<"infy">>} :
                ~InText(needle, text)

\* the entry of the symbol has the type among its types, and confidence >= c
HasSignal(impacted_stocks, symbol, type, c) ==
    \E i \in DOMAIN impacted_stocks :
        /\ impacted_stocks[i].symbol = symbol
        /\ type \in Range(TypesOf(impacted_stocks[i].impact_type))
        /\ impacted_stocks[i].confidence >= c

\* C24: for a story in which a regulator is detected, map_story records a
\* regulatory signal of confidence 0.7 for HDFCBANK and ICICIBANK and a
\* sector signal of confidence 0.7 for INFY; with no other signal the result
\* is these three entities, of those types and of confidence 0.7.
RegulatorSignals ==
    \A r \in mapLog :
        RegulatorDetected(r) =>
            /\ HasSignal(r.value.impacted_stocks, "HDFCBANK", <<"regulatory">>, 70)
            /\ HasSignal(r.value.impacted_stocks, "ICICIBANK", <<"regulatory">>, 70)
            /\ HasSignal(r.value.impacted_stocks, "INFY", <<"sector">>, 70)
            /\ NoOtherSignal(r) =>
                    r.value.impacted_stocks
                      = << NewImpact("HDFCBANK", <<"regulatory">>, 70),
                           NewImpact("ICICIBANK", <<"regulatory">>, 70),
                           NewImpact("INFY", <<"sector">>, 70) >>

\* map_story ran on a story whose only signal is its regulator tag, on one
\* whose only signal is the regulator's name in its text, and on one with a
\* sector tag next to the regulator
RegulatorStoriesMapped ==
    /\ \E r \in mapLog :
            /\ NoOtherSignal(r)
            /\ Contains(OrEmpty(GetAttr(r.story, "regulators")), "RBI")
    /\ \E r \in mapLog :
            /\ NoOtherSignal(r)
            /\ RegulatorDetected(r)
            /\ OrEmpty(GetAttr(r.story, "regulators")) = <<>>
    /\ \E r \in mapLog : RegulatorDetected(r) /\ ~NoOtherSignal(r)


\* ------------------------------------------------------------------------
\* Properties of the scores of search
\* ------------------------------------------------------------------------
\* the entity score of a story for a query, by the table of values: 1.0 for
\* an overlapping symbol of type direct, 0.8 for an overlap without one, 0.7
\* for a common sector, 0.9 for a common regulator, 0.0 otherwise
TableEntityScore(story, doc) ==
    LET overlap == {i \in DOMAIN story.impacted_stocks :
                        story.impacted_stocks[i].symbol \in QueryTickers(doc)}
        direct  == {i \in overlap :
                        <<"direct">> \in Range(TypesOf(story.impacted_stocks[i].impact_type))}
    IN  Max({0}
            \cup (IF direct # {} THEN {10000} ELSE {})
            \cup (IF overlap # {} /\ direct = {} THEN {8000} ELSE {})
            \cup (IF QueryEntities[doc].sectors \cap Range(story.sectors) # {}
                  THEN {7000} ELSE {})
            \cup (IF QueryEntities[doc].regulators \cap Range(story.regulators) # {}
                  THEN {9000} ELSE {}))

\* the query of the last search yielded an entity
QueryHasEntities(doc) ==
    \/ QueryEntities[doc].companies # {}
    \/ QueryEntities[doc].sectors # {}
    \/ QueryEntities[doc].regulators # {}
    \/ QueryTickers(doc) # {}

\* the semantic pass visited the story at most once: the story has no
\* embedding or is one entry of the indexed list
VisitedOnce(sid) ==
    \/ Deref(sid).embedding = None
    \/ Occurrences(searchCall.before, sid) = 1

\* C25: the entity score of an indexed story for a query is the highest of
\* the values that apply: 1.0 (overlapping symbol of type direct), 0.8
\* (overlap, none direct), 0.7 (common sector), 0.9 (common regulator), and
\* 0.0 when none applies.  It is read off a returned score by taking the
\* booster of the semantic pass away.
EntityMatchScore ==
    (SearchReturnedList /\ searchCall.before # <<>>
        /\ QueryHasEntities(searchCall.doc)) =>
        \A i \in DOMAIN searchRet.value :
            LET sid == searchRet.value[i].story
            IN  VisitedOnce(sid) =>
                    searchRet.value[i].score
                        - Booster(Deref(sid), searchCall.capabilities.embedded[1])
                      = TableEntityScore(Deref(sid), searchCall.doc)

\* a query that names a regulator only, and a returned story that has the
\* regulator and gets 0.9; a story without any match returned beside it
RegulatorOnlyMatch ==
    /\ SearchReturnedList
    /\ QueryEntities[searchCall.doc].regulators # {}
    /\ QueryEntities[searchCall.doc].sectors = {}
    /\ QueryTickers(searchCall.doc) = {}
    /\ searchCall.before = <<1, 2, 3>>
    /\ Len(searchRet.value) = 3
    /\ TableEntityScore(Deref(2), searchCall.doc) = 9000
    /\ TableEntityScore(Deref(3), searchCall.doc) = 0


\* entity score and similarity put together as the rule says
ComposedScore(story, doc, query_emb) ==
    LET entity == TableEntityScore(story, doc)
    IN  IF story.embedding = None THEN entity
        ELSE LET s == NpDot(query_emb, story.embedding[1])
             IN  IF QueryHasEntities(doc) THEN entity + 2 * s
                 ELSE IF s >= 300 THEN Max2(entity, 10 * s)
                 ELSE entity

\* C26: the final score of an indexed story with an embedding of similarity
\* s to the query is entity score + 0.2 x s when the query yielded an entity;
\* when it yielded none it is max(entity score, s) for s >= 0.3 and the
\* entity score for s < 0.3; a story without embedding keeps its entity score.
ScoreComposition ==
    (SearchReturnedList /\ searchCall.before # <<>>) =>
        \A i \in DOMAIN searchRet.value :
            searchRet.value[i].score
              = ComposedScore(Deref(searchRet.value[i].story), searchCall.doc,
                              searchCall.capabilities.embedded[1])


\* the score of a story object for the query when the indexed list holds
\* that object alone
ScoreAlone(sid, doc, query_emb) == FinalScores(<<sid>>, doc, query_emb)[sid]

\* C29: the score of an indexed entry depends on the query and on the fields
\* of the entry only: it is the score the entry gets when it is indexed alone,
\* whatever else the indexed list holds, other occurrences of the same story
\* object included.
ScoreIndependence ==
    (SearchReturnedList /\ searchCall.before # <<>>) =>
        \A i \in DOMAIN searchRet.value :
            searchRet.value[i].score
              = ScoreAlone(searchRet.value[i].story, searchCall.doc,
                           searchCall.capabilities.embedded[1])


\* C27: a story that the clustering engine made and map_story enriched has
\* an embedding when the query node indexes it, and a query without entities
\* whose similarity to it is at least 0.3 and at least min_score gets it back.
ThematicRetrieval ==
    (/\ "results" \in DOMAIN state
     /\ searchCall.name = "search"
     /\ searchRet.kind = "results"
     /\ searchCall.before # <<>>
     /\ ~QueryHasEntities(searchCall.doc)) =>
        \A i \in DOMAIN searchCall.before :
            LET story == Deref(searchCall.before[i])
                query_emb == searchCall.capabilities.embedded[1]
            IN  /\ story.embedding # None
                /\ (/\ NpDot(query_emb, story.embedding[1]) >= SemanticFloor
                    /\ AsScore(NpDot(query_emb, story.embedding[1]))
                         >= searchCall.min_score) =>
                        \E k \in DOMAIN searchRet.value :
                            searchRet.value[k].story = searchCall.before[i]

\* C28: a run of the graph calls ingest, dedup, enrich and query once each
\* in this order and then is at END with results in the state, which are
\* the empty list, without a search, when the query is empty.
RunCompletesInOrder ==
    (pc # "idle") ~>
        (/\ pc = "END"
         /\ stageLog = <<"ingest", "dedup", "enrich", "query">>
         /\ "results" \in DOMAIN state
         /\ (state["query"].text = <<>> =>
                state["results"] = <<>> /\ searchCall = NoCall))
====
